---- MODULE Spec2Model ----
(***************************************************************************)
(* The flight dashboard: three page modules (overview, delay_analysis,     *)
(* cancelled_flights), each holding its own module-level flights table     *)
(* that is loaded and enriched once at import, and the callbacks that      *)
(* compute one aggregate per chart from that table.                        *)
(*                                                                         *)
(* A DataFrame is a sequence of records (one per row, in row order); the   *)
(* RangeIndex label of a row is its field "index".  A missing value of an  *)
(* object (string) column is NaN; a float column holds <<>> (missing) or   *)
(* <<v>>.  A quotient (mean, rate) is kept exact as [num, den].            *)
(***************************************************************************)
EXTENDS Integers, Sequences, FiniteSets, TLC

VARIABLES
    ov,         \* namespace of pages/overview.py
    da,         \* namespace of pages/delay_analysis.py
    cf,         \* namespace of pages/cancelled_flights.py
    np_random,  \* state of numpy's process-global generator
    out,        \* what the last callback invocation returned (or raised)
    firstGeo,   \* history: the first geo-sample invocation and its result
    probe,      \* import: how often each module's enrichment has run
    ui          \* the input that changed last and the callbacks it triggers

vars == <<ov, da, cf, np_random, out, firstGeo, probe, ui>>

----------------------------------------------------------------------------
(* Bounds of the model *)

MaxRows == 3        \* rows of data/flights.csv
MaxApply == 2       \* times the enrichment of a module is run
RngMod == 2         \* number of states of a random generator
MaxHHMM == 2359     \* largest SCHEDULED_DEPARTURE (HHMM)
MaxEventRows == 1   \* rows of data/flights.csv when inputs change
TopCodes == 22      \* airports of the reference behind the Top-N charts

(* Program constants *)

MAP_SAMPLE == 300       \* min(300, len(df))
VIOLIN_SAMPLE == 1000   \* min(1000, len(df))
SEED == 42              \* random_state=42
ZFILL == 4              \* zfill(4)
HOUR_CHARS == 2         \* [:2]
TOP_ROUTES == 20
TOP_CITIES == 20
TOP_AIRPORTS == 10
TOP_CANCEL_AIRPORTS == 10
TOP_CANCEL_ROUTES == 15
TOP_CANCEL_RATES == 15
TOP_TAILS == 10
RANGE_PAD == 10         \* grouped['count'].max() + 10
VIOLIN_LO == -10        \* between(-10, 180)
VIOLIN_HI == 180
DIST_LIMIT == 3000      \* flights['DISTANCE'] < 3000

----------------------------------------------------------------------------
(* Values and small helpers *)

NaN == "NaN"
NaNf == <<>>
Val(v) == <<v>>

Min(a, b) == IF a <= b THEN a ELSE b
Range(s) == {s[i] : i \in DOMAIN s}
Col(t, name) == [i \in DOMAIN t |-> t[i][name]]

\* the elements of index set S of sequence s, in the order of s
Take(s, S) ==
    [k \in 1..Cardinality(S) |->
        s[CHOOSE i \in S : Cardinality({j \in S : j < i}) = k - 1]]

HeadN(s, n) == [k \in 1..Min(n, Len(s)) |-> s[k]]

----------------------------------------------------------------------------
(* The three input files *)

airlines_csv ==
    << [IATA_CODE |-> "AA", AIRLINE |-> "American"],
       [IATA_CODE |-> "BB", AIRLINE |-> "Blue"] >>

\* XNA is an airport of the reference that has no longitude
airports_csv ==
    << [IATA_CODE |-> "ATL", CITY |-> "Atlanta", LATITUDE |-> Val(33), LONGITUDE |-> Val(-84)],
       [IATA_CODE |-> "ORD", CITY |-> "Chicago", LATITUDE |-> Val(41), LONGITUDE |-> Val(-87)],
       [IATA_CODE |-> "XNA", CITY |-> "Fayetteville", LATITUDE |-> Val(36), LONGITUDE |-> NaNf] >>

Flight(al, tail, o, d, dep, delay, dist, dow, mon, canc, reason, causes) ==
    [AIRLINE |-> al, TAIL_NUMBER |-> tail, ORIGIN_AIRPORT |-> o,
     DESTINATION_AIRPORT |-> d, SCHEDULED_DEPARTURE |-> dep,
     DEPARTURE_DELAY |-> delay, DISTANCE |-> dist, DAY_OF_WEEK |-> dow,
     MONTH |-> mon, CANCELLED |-> canc, CANCELLATION_REASON |-> reason,
     AIR_SYSTEM_DELAY |-> causes[1], SECURITY_DELAY |-> causes[2],
     AIRLINE_DELAY |-> causes[3], LATE_AIRCRAFT_DELAY |-> causes[4],
     WEATHER_DELAY |-> causes[5]]

NoCauses == <<NaNf, NaNf, NaNf, NaNf, NaNf>>

\* The flights a data/flights.csv is drawn from.  ZZ is an airline that is
\* not in airlines.csv, 10397 an airport code that is not in airports.csv.
Catalogue ==
    << Flight("AA", "N1", "ATL", "ORD", 555, Val(-5), 499, 1, 1, 0, NaN, NoCauses),
       Flight("AA", "N2", "ORD", "ATL", 1230, Val(20), 500, 2, 2, 0, NaN,
              <<Val(0), Val(0), Val(20), Val(0), Val(0)>>),
       Flight("BB", "N3", "ATL", "ORD", 1230, Val(200), 2999, 1, 1, 0, NaN,
              <<NaNf, NaNf, NaNf, NaNf, Val(200)>>),
       Flight("AA", "N1", "ATL", "10397", 5, NaNf, 3000, 1, 10, 1, "B", NoCauses),
       Flight("BB", "N3", "XNA", "ATL", 555, NaNf, 1000, 7, 12, 1, "A", NoCauses),
       Flight("ZZ", NaN, "ORD", "ATL", 1230, Val(10), -5, 2, 2, 0, NaN,
              <<Val(10), Val(0), Val(0), Val(0), Val(0)>>),
       Flight("AA", "N2", "ATL", "ORD", 555, NaNf, 0, 1, 1, 1, "A", NoCauses),
       Flight("BB", "N4", "ORD", "ATL", 5, Val(0), 2500, 7, 12, 0, NaN, NoCauses) >>

\* pd.read_csv: the rows of the file under a RangeIndex 0..n-1
read_csv(file) ==
    [i \in DOMAIN file |->
        [f \in DOMAIN file[i] \cup {"index"} |->
            IF f = "index" THEN i - 1 ELSE file[i][f]]]

\* every data/flights.csv of at most MaxRows catalogue flights
FlightFiles ==
    {Take(Catalogue, S) :
        S \in {T \in SUBSET DOMAIN Catalogue : Cardinality(T) <= MaxRows}}

\* Files longer than the sample sizes of the callbacks: MAP_SAMPLE flights
\* with known endpoints, or VIOLIN_SAMPLE flights of one hour with a delay
\* in the violin's range, followed by no or one more catalogue flight.
Cycle(rows, n) == [i \in 1..n |-> rows[((i - 1) % Len(rows)) + 1]]
MapBlock == Cycle(<<Catalogue[1], Catalogue[2], Catalogue[3]>>, MAP_SAMPLE)
ViolinBlock == Cycle(<<Catalogue[2], Catalogue[6]>>, VIOLIN_SAMPLE)
BigFlightFiles ==
    {block \o extra :
        block \in {MapBlock, ViolinBlock},
        extra \in {<<>>} \cup {<<Catalogue[i]>> : i \in DOMAIN Catalogue}}

----------------------------------------------------------------------------
(* Reference mappings *)

\* dict(zip(keys, values)): the last pair of a key wins
DictZip(keys, values) ==
    [k \in Range(keys) |->
        values[CHOOSE i \in DOMAIN keys :
            keys[i] = k /\ \A j \in DOMAIN keys : keys[j] = k => j <= i]]

\* Series.map(dict): a value that is no key maps to NaN
MapSeries(s, d) == [i \in DOMAIN s |-> IF s[i] \in DOMAIN d THEN d[s[i]] ELSE NaN]

\* DataFrame.dropna() over object columns / over float columns
DropNaStr(t, cols) == SelectSeq(t, LAMBDA r : \A c \in cols : r[c] # NaN)
DropNaNum(t, cols) == SelectSeq(t, LAMBDA r : \A c \in cols : r[c] # NaNf)

airline_map_of(airlines) == DictZip(Col(airlines, "IATA_CODE"), Col(airlines, "AIRLINE"))
city_map_of(airports) == DictZip(Col(airports, "IATA_CODE"), Col(airports, "CITY"))

\* the coordinate table without the dropna()
airport_coords_of_NoDropna(airports) ==
    [i \in DOMAIN airports |->
        [IATA_CODE |-> airports[i].IATA_CODE,
         LATITUDE |-> airports[i].LATITUDE,
         LONGITUDE |-> airports[i].LONGITUDE]]

\* airports.set_index('IATA_CODE')[['LATITUDE', 'LONGITUDE']].dropna()
airport_coords_of(airports) ==
    DropNaNum([i \in DOMAIN airports |->
               [IATA_CODE |-> airports[i].IATA_CODE,
                LATITUDE |-> airports[i].LATITUDE,
                LONGITUDE |-> airports[i].LONGITUDE]],
           {"LATITUDE", "LONGITUDE"})

CoordsIndex(coords) == Range(Col(coords, "IATA_CODE"))

----------------------------------------------------------------------------
(* Enrichment *)

\* flights[name] = col
WithColumn(t, name, col) ==
    [i \in DOMAIN t |->
        [f \in DOMAIN t[i] \cup {name} |-> IF f = name THEN col[i] ELSE t[i][f]]]

\* Series + Series of strings: a missing operand gives a missing result
StrAdd(a, b) == [i \in DOMAIN a |-> IF a[i] = NaN \/ b[i] = NaN THEN NaN ELSE a[i] \o b[i]]
StrAddConst(a, c) == [i \in DOMAIN a |-> IF a[i] = NaN THEN NaN ELSE a[i] \o c]

DayNames ==
    [d \in 1..7 |-> <<"Mon", "Tue", "Wed", "Thu", "Fri", "Sat", "Sun">>[d]]
MonthNames ==
    [m \in 1..12 |-> <<"Jan", "Feb", "Mar", "Apr", "May", "Jun",
                       "Jul", "Aug", "Sep", "Oct", "Nov", "Dec">>[m]]

\* str(int(x)): the decimal digits of x >= 0
RECURSIVE Digits(_)
Digits(n) == IF n < 10 THEN <<n>> ELSE Append(Digits(n \div 10), n % 10)

\* str.zfill(width)
RECURSIVE zfill(_, _)
zfill(s, width) == IF Len(s) >= width THEN s ELSE zfill(<<0>> \o s, width)

\* int(s) of a string of digits
RECURSIVE ParseInt(_)
ParseInt(s) ==
    IF Len(s) = 0 THEN 0
    ELSE 10 * ParseInt(SubSeq(s, 1, Len(s) - 1)) + s[Len(s)]

\* the hour without the padding: int(str(int(x))[:2])
SCHED_HOUR_Unpadded(x) == ParseInt(SubSeq(Digits(x), 1, Min(HOUR_CHARS, Len(Digits(x)))))

\* lambda x: int(str(int(x)).zfill(4)[:2])   (delay_analysis.py)
SCHED_HOUR(x) == ParseInt(SubSeq(zfill(Digits(x), ZFILL), 1, HOUR_CHARS))

\* lambda x: int(str(int(x)).zfill(4)[:2])   (cancelled_flights.py)
HOUR(x) == ParseInt(SubSeq(zfill(Digits(x), ZFILL), 1, HOUR_CHARS))

\* lambda x: 'On Time' if x <= 0 else 'Delayed'   (NaN <= 0 is False)
ON_TIME(x) == IF x # NaNf /\ x[1] <= 0 THEN "On Time" ELSE "Delayed"

\* the airline name written over the AIRLINE column as well
SetAirlineName_InPlace(t, airline_map) ==
    WithColumn(WithColumn(t, "AIRLINE", MapSeries(Col(t, "AIRLINE"), airline_map)),
               "AIRLINE_NAME", MapSeries(Col(t, "AIRLINE"), airline_map))

SetAirlineName(t, airline_map) ==
    WithColumn(t, "AIRLINE_NAME", MapSeries(Col(t, "AIRLINE"), airline_map))
SetOriginCity(t, city_map) ==
    WithColumn(t, "ORIGIN_CITY", MapSeries(Col(t, "ORIGIN_AIRPORT"), city_map))
SetDestCity(t, city_map) ==
    WithColumn(t, "DEST_CITY", MapSeries(Col(t, "DESTINATION_AIRPORT"), city_map))
SetRoute(t) ==
    WithColumn(t, "ROUTE",
        StrAdd(StrAddConst(Col(t, "ORIGIN_CITY"), " → "), Col(t, "DEST_CITY")))
SetDayName(t) == WithColumn(t, "DAY_NAME", MapSeries(Col(t, "DAY_OF_WEEK"), DayNames))
SetMonthName(t) == WithColumn(t, "MONTH_NAME", MapSeries(Col(t, "MONTH"), MonthNames))
SetHour(t) ==
    WithColumn(t, "HOUR", [i \in DOMAIN t |-> HOUR(t[i].SCHEDULED_DEPARTURE)])
SetSchedHour(t) ==
    WithColumn(t, "SCHED_HOUR", [i \in DOMAIN t |-> SCHED_HOUR(t[i].SCHEDULED_DEPARTURE)])
SetOnTime(t) ==
    WithColumn(t, "ON_TIME", [i \in DOMAIN t |-> ON_TIME(t[i].DEPARTURE_DELAY)])

\* overview.py, lines 21-29
EnrichOverview(t, airline_map, city_map) ==
    SetMonthName(SetDayName(SetRoute(SetDestCity(
        SetOriginCity(SetAirlineName(t, airline_map), city_map), city_map))))

\* cancelled_flights.py, lines 18-23
EnrichCancelled(t, airline_map, city_map) ==
    SetHour(SetDayName(SetRoute(SetDestCity(
        SetOriginCity(SetAirlineName(t, airline_map), city_map), city_map))))

\* delay_analysis.py, lines 14-20
EnrichDelay(t, airline_map) == SetOnTime(SetSchedHour(SetAirlineName(t, airline_map)))

\* the module namespaces after the files are read and the mappings built
ReadOverview(file) ==
    [flights |-> read_csv(file),
     airline_map |-> airline_map_of(read_csv(airlines_csv)),
     airport_coords |-> airport_coords_of(read_csv(airports_csv)),
     city_map |-> city_map_of(read_csv(airports_csv))]

ReadCancelled(file) ==
    [flights |-> read_csv(file),
     airline_map |-> airline_map_of(read_csv(airlines_csv)),
     airport_coords |-> airport_coords_of(read_csv(airports_csv)),
     city_map |-> city_map_of(read_csv(airports_csv))]

ReadDelay(file) ==
    [flights |-> read_csv(file),
     airline_map |-> airline_map_of(read_csv(airlines_csv))]

\* the enrichment statements of a module, run on its namespace
EnrichOverviewNs(ns) ==
    [ns EXCEPT !.flights = EnrichOverview(ns.flights, ns.airline_map, ns.city_map)]
EnrichCancelledNs(ns) ==
    [ns EXCEPT !.flights = EnrichCancelled(ns.flights, ns.airline_map, ns.city_map)]
EnrichDelayNs(ns) ==
    [ns EXCEPT !.flights = EnrichDelay(ns.flights, ns.airline_map)]

\* the module namespaces once the import has run
LoadOverview(file) == EnrichOverviewNs(ReadOverview(file))
LoadCancelled(file) == EnrichCancelledNs(ReadCancelled(file))
LoadDelay(file) == EnrichDelayNs(ReadDelay(file))

----------------------------------------------------------------------------
(* Random sampling.  A generator is a state in 0..RngMod-1; a permutation  *)
(* drawn in state s is the rotation by s (Permutation(s, n, i) is its i-th *)
(* element), and drawing it moves the state on (a permutation of fewer     *)
(* than two elements draws nothing).                                       *)

RandomState(seed) == seed % RngMod
RngNext(s) == (s + 1) % RngMod
Permutation(s, n, i) == ((i - 1 + s) % n) + 1
AfterPermutation(s, n) == IF n > 1 THEN RngNext(s) ELSE s

\* DataFrame.sample(n) with the generator in state s: the first n rows of
\* a permutation; more than the population raises ValueError
CanSample(t, n) == n <= Len(t)
Sample(t, n, s) == [k \in 1..n |-> t[Permutation(s, Len(t), k)]]

----------------------------------------------------------------------------
(* Callback inputs *)

None == "None"
AirlineInputs == {None} \cup DOMAIN airline_map_of(airlines_csv)
HourInputs == {0, 5, 12}

\* df = flights if airline is None else flights[flights['AIRLINE'] == airline]
ByAirline(t, airline) ==
    IF airline = None THEN t ELSE SelectSeq(t, LAMBDA r : r.AIRLINE = airline)

Result(cb, arg, status, selected, data) ==
    [cb |-> cb, arg |-> arg, status |-> status, selected |-> selected, data |-> data]


----------------------------------------------------------------------------
(* Counting, grouping and sorting *)

\* the elements of set S as a sequence in the strict total order Less,
\* given as the set of the pairs <<a, b>> with a before b
SortSet(S, Less) ==
    [k \in 1..Cardinality(S) |->
        CHOOSE x \in S : Cardinality({y \in S : <<y, x>> \in Less}) = k - 1]

\* sort_values over a short table, Less being the set of the pairs <<i, j>>
\* of row numbers with row i before row j: rows that compare equal keep
\* their order
StableSort(s, Less) ==
    [k \in 1..Len(s) |->
        s[CHOOSE i \in DOMAIN s :
            Cardinality({j \in DOMAIN s :
                \/ <<j, i>> \in Less
                \/ (<<i, j>> \notin Less /\ j < i)}) = k - 1]]

\* the order Python gives the strings that occur as group keys
Collation ==
    << "AIRLINE_DELAY", "AIR_SYSTEM_DELAY", "American", "Atlanta → Chicago",
       "Blue", "Chicago → Atlanta", "Fayetteville → Atlanta", "Fri",
       "LATE_AIRCRAFT_DELAY", "Mon", "SECURITY_DELAY", "Sat", "Sun", "Thu",
       "Tue", "WEATHER_DELAY", "Wed" >>
StrRank(x) == CHOOSE i \in DOMAIN Collation : Collation[i] = x
StrLess(a, b) == StrRank(a) < StrRank(b)
StrOrder(S) == {p \in S \X S : StrLess(p[1], p[2])}

\* where value v first occurs in s
FirstIndex(s, v) == CHOOSE i \in DOMAIN s : s[i] = v /\ \A j \in 1..(i - 1) : s[j] # v

\* pd.unique: the distinct values in the order of first appearance
Unique(s) ==
    LET found == {FirstIndex(s, v) : v \in Range(s)}
        firsts == SortSet(found, {p \in found \X found : p[1] < p[2]})
    IN  [k \in DOMAIN firsts |-> s[firsts[k]]]

\* the tally of an object column left in the order of first appearance
ValueCounts_Unsorted(s) ==
    LET kept == Unique(SelectSeq(s, LAMBDA v : v # NaN))
    IN  [k \in DOMAIN kept |->
            [key |-> kept[k], count |-> Cardinality({i \in DOMAIN s : s[i] = kept[k]})]]

\* Series.value_counts() of an object column: NaN is dropped, the counts
\* descend, and equal counts stay in the order of first appearance
ValueCounts(s) ==
    LET tally == {[key |-> v, count |-> Cardinality({i \in DOMAIN s : s[i] = v}),
                   first |-> FirstIndex(s, v)] : v \in Range(s) \ {NaN}}
        order == SortSet(tally, {p \in tally \X tally :
                     \/ p[1].count > p[2].count
                     \/ (p[1].count = p[2].count /\ p[1].first < p[2].first)})
    IN  [k \in DOMAIN order |-> [key |-> order[k].key, count |-> order[k].count]]

\* Series.value_counts() of an integer column that has no missing value
ValueCountsInt(s) ==
    LET tally == {[key |-> v, count |-> Cardinality({i \in DOMAIN s : s[i] = v}),
                   first |-> FirstIndex(s, v)] : v \in Range(s)}
        order == SortSet(tally, {p \in tally \X tally :
                     \/ p[1].count > p[2].count
                     \/ (p[1].count = p[2].count /\ p[1].first < p[2].first)})
    IN  [k \in DOMAIN order |-> [key |-> order[k].key, count |-> order[k].count]]

\* Series.reindex(order) of a value_counts: a label without rows gets NaN
Reindex(counts, order) ==
    [k \in DOMAIN order |->
        [key |-> order[k],
         count |-> IF \E i \in DOMAIN counts : counts[i].key = order[k]
                   THEN Val((counts[CHOOSE i \in DOMAIN counts :
                                 counts[i].key = order[k]]).count)
                   ELSE NaNf]]

\* the keys of a grouping that also lists the day names without any row
GroupKeys_Unobserved(t, col) ==
    LET keys == (Range(Col(t, col)) \cup {DayNames[d] : d \in DOMAIN DayNames}) \ {NaN}
    IN  SortSet(keys, StrOrder(keys))

\* groupby(col) over an object column: the observed, non-missing keys, sorted
GroupKeys(t, col) ==
    LET keys == Range(Col(t, col)) \ {NaN}
    IN  SortSet(keys, StrOrder(keys))

\* the sum of s[lo..hi], halving the range
RECURSIVE SumRange(_, _, _)
SumRange(s, lo, hi) ==
    IF lo > hi THEN 0
    ELSE IF lo = hi THEN s[lo]
    ELSE SumRange(s, lo, (lo + hi) \div 2) + SumRange(s, ((lo + hi) \div 2) + 1, hi)

SumSeq(s) == SumRange(s, 1, Len(s))

\* the present values of a float column
Present(s) ==
    LET kept == SelectSeq(s, LAMBDA x : x # NaNf)
    IN  [k \in DOMAIN kept |-> kept[k][1]]

\* Series.mean(): the missing values are skipped; no present value gives NaN
Quot(num, den) == [num |-> num, den |-> den]
Mean(s) == Quot(SumSeq(Present(s)), Len(Present(s)))

\* agg(cancelled=('CANCELLED', 'sum'), total=('CANCELLED', 'count')) and
\* rate = 100 * cancelled / total, for the rows of one group
RateOf(rows) ==
    LET cancelled == SumSeq(Col(rows, "CANCELLED"))
        total == Len(rows)
    IN  [cancelled |-> cancelled, total |-> total, rate |-> Quot(100 * cancelled, total)]

\* a / b < c / d for b, d > 0
QuotLess(p, q) == p.num * q.den < q.num * p.den

----------------------------------------------------------------------------
(* The two maps *)

\* airport_coords.loc[code]
HasLoc(coords, code) == code \in CoordsIndex(coords)
Loc(coords, code) == coords[CHOOSE i \in DOMAIN coords : coords[i].IATA_CODE = code]

\* the arc traces and the marker trace drawn from the sampled rows
Arcs(sample, coords) ==
    [k \in DOMAIN sample |->
        [origin |-> sample[k].ORIGIN_AIRPORT, dest |-> sample[k].DESTINATION_AIRPORT,
         lon |-> <<Loc(coords, sample[k].ORIGIN_AIRPORT).LONGITUDE,
                   Loc(coords, sample[k].DESTINATION_AIRPORT).LONGITUDE>>,
         lat |-> <<Loc(coords, sample[k].ORIGIN_AIRPORT).LATITUDE,
                   Loc(coords, sample[k].DESTINATION_AIRPORT).LATITUDE>>]]

\* sample[['ORIGIN_AIRPORT', 'DESTINATION_AIRPORT']].values.ravel()
Ravel(sample) ==
    [k \in 1..(2 * Len(sample)) |->
        IF k % 2 = 1 THEN sample[(k + 1) \div 2].ORIGIN_AIRPORT
        ELSE sample[k \div 2].DESTINATION_AIRPORT]

Markers(sample, coords) ==
    LET airports_used == Unique(Ravel(sample))
    IN  [k \in DOMAIN airports_used |->
            [code |-> airports_used[k],
             lon |-> Loc(coords, airports_used[k]).LONGITUDE,
             lat |-> Loc(coords, airports_used[k]).LATITUDE]]

\* the rows the map samples from: both endpoints in airport_coords.index
WithCoords(t, coords) ==
    SelectSeq(t, LAMBDA r : /\ r.ORIGIN_AIRPORT \in CoordsIndex(coords)
                        /\ r.DESTINATION_AIRPORT \in CoordsIndex(coords))

EndPoints(t) ==
    [i \in DOMAIN t |->
        [index |-> t[i].index, ORIGIN_AIRPORT |-> t[i].ORIGIN_AIRPORT,
         DESTINATION_AIRPORT |-> t[i].DESTINATION_AIRPORT]]

MapSampleSize(df) == Min(MAP_SAMPLE, Len(df))

GeoData(sample, coords) ==
    [sample |-> sample, arcs |-> Arcs(sample, coords), markers |-> Markers(sample, coords)]
NoGeoData == [sample |-> <<>>, arcs |-> <<>>, markers |-> <<>>]

\* the map sample drawn from the process-global generator (random_state=None)
GeoGenerator_Global == np_random

\* the generator of the map sample: random_state=42, a RandomState of the call
GeoGenerator == RandomState(SEED)

GeoResult(cb, arg, df, population, coords) ==
    LET sample == Sample(population, MapSampleSize(df), GeoGenerator)
    IN  IF ~CanSample(population, MapSampleSize(df))
        THEN Result(cb, arg, "ValueError", Len(df), NoGeoData)
        ELSE IF \E k \in DOMAIN sample :
                    \/ ~HasLoc(coords, sample[k].ORIGIN_AIRPORT)
                    \/ ~HasLoc(coords, sample[k].DESTINATION_AIRPORT)
        THEN Result(cb, arg, "KeyError", Len(df), NoGeoData)
        ELSE Result(cb, arg, "ok", Len(df), GeoData(sample, coords))

show_map(selected_airline) ==
    LET df == ByAirline(ov.flights, selected_airline)
        sample == DropNaStr(EndPoints(df), {"ORIGIN_AIRPORT", "DESTINATION_AIRPORT"})
    IN  GeoResult("show_map", selected_airline, df,
                  WithCoords(sample, ov.airport_coords), ov.airport_coords)

cancel_map ==
    LET df == SelectSeq(cf.flights, LAMBDA r : r.CANCELLED = 1)
    IN  GeoResult("cancel_map", None, df,
                  WithCoords(EndPoints(df), cf.airport_coords), cf.airport_coords)


----------------------------------------------------------------------------
(* Callbacks of the overview page *)

airline_share(airline) ==
    LET counts == ValueCounts(Col(ov.flights, "AIRLINE_NAME"))
        selected_name == IF airline \in DOMAIN ov.airline_map
                         THEN ov.airline_map[airline] ELSE None
    IN  Result("airline_share", airline, "ok", Len(ov.flights),
            IF airline # None
            THEN [k \in DOMAIN counts |->
                    [Airline |-> counts[k].key, Flights |-> counts[k].count,
                     Highlight |-> IF counts[k].key = selected_name
                                   THEN "Selected" ELSE "Other"]]
            ELSE [k \in DOMAIN counts |->
                    [Airline |-> counts[k].key, Flights |-> counts[k].count]])

route_bar(airline) ==
    LET df == ByAirline(ov.flights, airline)
    IN  Result("route_bar", airline, "ok", Len(df),
               HeadN(ValueCounts(Col(df, "ROUTE")), TOP_ROUTES))

day_order == <<"Mon", "Tue", "Wed", "Thu", "Fri", "Sat", "Sun">>
month_order == <<"Jan", "Feb", "Mar", "Apr", "May", "Jun",
                 "Jul", "Aug", "Sep", "Oct", "Nov", "Dec">>

busiest_day(airline) ==
    LET df == ByAirline(ov.flights, airline)
    IN  Result("busiest_day", airline, "ok", Len(df),
               Reindex(ValueCounts(Col(df, "DAY_NAME")), day_order))

monthly_trend(airline) ==
    LET df == ByAirline(ov.flights, airline)
    IN  Result("monthly_trend", airline, "ok", Len(df),
               Reindex(ValueCounts(Col(df, "MONTH_NAME")), month_order))

origin_treemap(airline) ==
    LET df == ByAirline(ov.flights, airline)
    IN  Result("origin_treemap", airline, "ok", Len(df),
               HeadN(ValueCounts(Col(df, "ORIGIN_CITY")), TOP_CITIES))

dest_treemap(airline) ==
    LET df == ByAirline(ov.flights, airline)
    IN  Result("dest_treemap", airline, "ok", Len(df),
               HeadN(ValueCounts(Col(df, "DEST_CITY")), TOP_CITIES))

\* f"{row['City']} ({row['Airport Code']})" if pd.notnull(row['City']) else the code
AirportLabel(city, code) == IF city # NaN THEN city \o " (" \o code \o ")" ELSE code

airport_bar(airline) ==
    LET df == ByAirline(ov.flights, airline)
        all_airports == Col(df, "ORIGIN_AIRPORT") \o Col(df, "DESTINATION_AIRPORT")
        airport_counts == HeadN(ValueCounts(all_airports), TOP_AIRPORTS)
        City == MapSeries(Col(airport_counts, "key"), ov.city_map)
    IN  Result("airport_bar", airline, "ok", Len(df),
            [k \in DOMAIN airport_counts |->
                [code |-> airport_counts[k].key, Flights |-> airport_counts[k].count,
                 City |-> City[k],
                 Label |-> AirportLabel(City[k], airport_counts[k].key)]])


----------------------------------------------------------------------------
(* Callbacks of the cancelled-flights page *)

Cancelled(t) == SelectSeq(t, LAMBDA r : r.CANCELLED = 1)
RowsOf(t, col, key) == SelectSeq(t, LAMBDA r : r[col] = key)

\* groupby(col).size().reset_index(name='count')
SizeBy(t, col) ==
    LET keys == GroupKeys(t, col)
    IN  [k \in DOMAIN keys |-> [key |-> keys[k], count |-> Len(RowsOf(t, col, keys[k]))]]

cancelled_bar ==
    LET cancelled == Cancelled(cf.flights)
        data == SizeBy(cancelled, "AIRLINE_NAME")
    IN  Result("cancelled_bar", None, "ok", Len(cancelled),
               StableSort(data, {p \in (DOMAIN data) \X (DOMAIN data) :
                                    data[p[1]].count < data[p[2]].count}))

cancelled_pie ==
    LET pie_data == ValueCountsInt(Col(cf.flights, "CANCELLED"))
    IN  Result("cancelled_pie", None, "ok", Len(cf.flights),
            [k \in DOMAIN pie_data |->
                [Cancelled |-> IF pie_data[k].key = 1 THEN "Cancelled"
                               ELSE IF pie_data[k].key = 0 THEN "Completed" ELSE NaN,
                 Count |-> pie_data[k].count]])

\* groupby(col).agg(cancelled, total) and the rate, one row per observed key
RateBy(t, col) ==
    LET keys == GroupKeys(t, col)
    IN  [k \in DOMAIN keys |->
            [key |-> keys[k]] @@ RateOf(RowsOf(t, col, keys[k]))]

cancel_day_bar ==
    Result("cancel_day_bar", None, "ok", Len(cf.flights), RateBy(cf.flights, "DAY_NAME"))

\* the observed pairs of two object columns, both present, in sorted order
PairKeys(t, c1, c2) ==
    LET keys == {<<t[i][c1], t[i][c2]>> :
                    i \in {j \in DOMAIN t : t[j][c1] # NaN /\ t[j][c2] # NaN}}
    IN  SortSet(keys, {p \in keys \X keys :
                    \/ StrLess(p[1][1], p[2][1])
                    \/ (p[1][1] = p[2][1] /\ StrLess(p[1][2], p[2][2]))})

cancel_heat ==
    LET keys == PairKeys(cf.flights, "AIRLINE_NAME", "DAY_NAME")
    IN  Result("cancel_heat", None, "ok", Len(cf.flights),
            [k \in DOMAIN keys |->
                [key |-> keys[k]] @@
                RateOf(SelectSeq(cf.flights, LAMBDA r : /\ r.AIRLINE_NAME = keys[k][1]
                                                    /\ r.DAY_NAME = keys[k][2]))])

reason_map == [A |-> "Airline", B |-> "Weather", C |-> "NAS", D |-> "Security"]

cancel_reason_pie ==
    LET cancelled == Cancelled(cf.flights)
        pie == ValueCounts(Col(cancelled, "CANCELLATION_REASON"))
        Reason == MapSeries(Col(pie, "key"), reason_map)
    IN  Result("cancel_reason_pie", None, "ok", Len(cancelled),
            [k \in DOMAIN pie |-> [Reason |-> Reason[k], Count |-> pie[k].count]])

cancel_airport_bar ==
    LET cancelled == Cancelled(cf.flights)
        df == HeadN(ValueCounts(Col(cancelled, "ORIGIN_AIRPORT")), TOP_CANCEL_AIRPORTS)
        City == MapSeries(Col(df, "key"), cf.city_map)
    IN  Result("cancel_airport_bar", None, "ok", Len(cancelled),
            [k \in DOMAIN df |->
                [Airport |-> df[k].key, Cancelled |-> df[k].count, City |-> City[k]]])

cancel_route_bar ==
    LET df == Cancelled(cf.flights)
    IN  Result("cancel_route_bar", None, "ok", Len(df),
               HeadN(ValueCounts(Col(df, "ROUTE")), TOP_CANCEL_ROUTES))

cancel_rate_bar ==
    LET df == RateBy(cf.flights, "ROUTE")
        top == HeadN(StableSort(df, {p \in (DOMAIN df) \X (DOMAIN df) :
                                        QuotLess(df[p[2]].rate, df[p[1]].rate)}),
                     TOP_CANCEL_RATES)
    IN  Result("cancel_rate_bar", None, "ok", Len(cf.flights), top)

cancelled_tail_bar ==
    LET cancelled == Cancelled(cf.flights)
    IN  Result("cancelled_tail_bar", None, "ok", Len(cancelled),
               HeadN(ValueCounts(Col(cancelled, "TAIL_NUMBER")), TOP_TAILS))

\* Series.max() of a count column: NaN when there is no row
MaxCount(s) ==
    IF Len(s) = 0 THEN NaNf
    ELSE Val(CHOOSE m \in Range(s) : \A x \in Range(s) : x <= m)
AddTo(x, c) == IF x = NaNf THEN NaNf ELSE Val(x[1] + c)

\* the observed (HOUR, AIRLINE_NAME) pairs with a present name, sorted
HourNameKeys(t) ==
    LET keys == {<<t[i].HOUR, t[i].AIRLINE_NAME>> :
                    i \in {j \in DOMAIN t : t[j].AIRLINE_NAME # NaN}}
    IN  SortSet(keys, {p \in keys \X keys :
                    \/ p[1][1] < p[2][1]
                    \/ (p[1][1] = p[2][1] /\ StrLess(p[1][2], p[2][2]))})

cancel_animated_bar ==
    LET df == Cancelled(cf.flights)
        keys == HourNameKeys(df)
        grouped == [k \in DOMAIN keys |->
                       [HOUR |-> keys[k][1], AIRLINE_NAME |-> keys[k][2],
                        count |-> Len(SelectSeq(df, LAMBDA r : /\ r.HOUR = keys[k][1]
                                                           /\ r.AIRLINE_NAME = keys[k][2]))]]
    IN  Result("cancel_animated_bar", None, "ok", Len(df),
               [grouped |-> grouped,
                range_y |-> <<Val(0), AddTo(MaxCount(Col(grouped, "count")), RANGE_PAD)>>])

----------------------------------------------------------------------------
(* Callbacks of the delay-analysis page *)

NotCancelled(t) == SelectSeq(t, LAMBDA r : r.CANCELLED = 0)

update_boxplot(hour) ==
    LET df == SelectSeq(da.flights, LAMBDA r : r.SCHED_HOUR = hour /\ r.CANCELLED = 0)
        names == Unique(Col(DropNaStr(df, {"AIRLINE_NAME"}), "AIRLINE_NAME"))
    IN  Result("update_boxplot", hour, "ok", Len(df),
            [k \in DOMAIN names |->
                [name |-> names[k],
                 y |-> Col(RowsOf(df, "AIRLINE_NAME", names[k]), "DEPARTURE_DELAY")]])

\* the observed (AIRLINE_NAME, SCHED_HOUR) pairs with a present name, sorted
NameHourKeys(t) ==
    LET keys == {<<t[i].AIRLINE_NAME, t[i].SCHED_HOUR>> :
                    i \in {j \in DOMAIN t : t[j].AIRLINE_NAME # NaN}}
    IN  SortSet(keys, {p \in keys \X keys :
                    \/ StrLess(p[1][1], p[2][1])
                    \/ (p[1][1] = p[2][1] /\ p[1][2] < p[2][2])})

\* df.groupby(['AIRLINE_NAME', 'SCHED_HOUR'])['DEPARTURE_DELAY'].mean()
MeanDelayByNameHour(df) ==
    LET keys == NameHourKeys(df)
    IN  [k \in DOMAIN keys |->
            [AIRLINE_NAME |-> keys[k][1], SCHED_HOUR |-> keys[k][2],
             DEPARTURE_DELAY |->
                Mean(Col(SelectSeq(df, LAMBDA r : /\ r.AIRLINE_NAME = keys[k][1]
                                              /\ r.SCHED_HOUR = keys[k][2]),
                         "DEPARTURE_DELAY"))]]

delay_trend_animation ==
    LET df == NotCancelled(da.flights)
    IN  Result("delay_trend_animation", None, "ok", Len(df), MeanDelayByNameHour(df))

delay_heatmap ==
    LET df == NotCancelled(da.flights)
    IN  Result("delay_heatmap", None, "ok", Len(df), MeanDelayByNameHour(df))

\* Series.between(lo, hi): inclusive, False for a missing value
Between(x, lo, hi) == x # NaNf /\ lo <= x[1] /\ x[1] <= hi

ViolinRows(hour) ==
    SelectSeq(da.flights, LAMBDA r : /\ r.SCHED_HOUR = hour
                                 /\ Between(r.DEPARTURE_DELAY, VIOLIN_LO, VIOLIN_HI))

\* the sample size without the min(): df.sample(1000)
ViolinSampleSize_Fixed(df) == VIOLIN_SAMPLE

ViolinSampleSize(df) == Min(VIOLIN_SAMPLE, Len(df))

\* df.sample(n) without random_state draws from the generator in state s
delay_violin(hour, s) ==
    LET df == ViolinRows(hour)
        drawn == Sample(df, ViolinSampleSize(df), s)
    IN  IF CanSample(df, ViolinSampleSize(df))
        THEN Result("delay_violin", hour, "ok", Len(df),
                [k \in DOMAIN drawn |->
                    [index |-> drawn[k].index,
                     DEPARTURE_DELAY |-> drawn[k].DEPARTURE_DELAY,
                     AIRLINE_NAME |-> drawn[k].AIRLINE_NAME]])
        ELSE Result("delay_violin", hour, "ValueError", Len(df), <<>>)

bins == <<0, 500, 1000, 1500, 2000, 2500, 3000>>
labels == <<"<500", "500-999", "1000-1499", "1500-1999", "2000-2499", "2500+">>

\* pd.cut(x, bins, labels): bin k is (bins[k], bins[k+1]], closed on the
\* right; a value in no bin is NaN
Cut(x) ==
    IF \E k \in DOMAIN labels : bins[k] < x /\ x <= bins[k + 1]
    THEN labels[CHOOSE k \in DOMAIN labels : bins[k] < x /\ x <= bins[k + 1]]
    ELSE NaN

delay_by_distance_range(hour) ==
    LET df0 == SelectSeq(da.flights, LAMBDA r : /\ r.CANCELLED = 0
                                            /\ r.SCHED_HOUR = hour
                                            /\ r.DISTANCE < DIST_LIMIT)
        df == WithColumn(df0, "DISTANCE_BIN", [i \in DOMAIN df0 |-> Cut(df0[i].DISTANCE)])
        observed == Take(labels, {k \in DOMAIN labels :
                                     \E i \in DOMAIN df : df[i].DISTANCE_BIN = labels[k]})
    IN  Result("delay_by_distance_range", hour, "ok", Len(df),
            [binned |-> [i \in DOMAIN df |->
                            [DISTANCE |-> df[i].DISTANCE,
                             DISTANCE_BIN |-> df[i].DISTANCE_BIN]],
             avg |-> [k \in DOMAIN observed |->
                        [DISTANCE_BIN |-> observed[k],
                         DEPARTURE_DELAY |->
                            Mean(Col(RowsOf(df, "DISTANCE_BIN", observed[k]),
                                     "DEPARTURE_DELAY"))]]])

\* descending order of means; a NaN mean sorts last
MeanGreater(p, q) == p.den > 0 /\ (q.den = 0 \/ QuotLess(q, p))

avg_delay ==
    LET df == NotCancelled(da.flights)
        keys == GroupKeys(df, "AIRLINE_NAME")
        data == [k \in DOMAIN keys |->
                    [AIRLINE_NAME |-> keys[k],
                     DEPARTURE_DELAY |->
                        Mean(Col(RowsOf(df, "AIRLINE_NAME", keys[k]), "DEPARTURE_DELAY"))]]
    IN  Result("avg_delay", None, "ok", Len(df),
            StableSort(data, {p \in (DOMAIN data) \X (DOMAIN data) :
                MeanGreater(data[p[1]].DEPARTURE_DELAY, data[p[2]].DEPARTURE_DELAY)}))

cause_cols == <<"AIR_SYSTEM_DELAY", "SECURITY_DELAY", "AIRLINE_DELAY",
                "LATE_AIRCRAFT_DELAY", "WEATHER_DELAY">>

delay_cause_bar ==
    LET df == DropNaNum(DropNaStr(da.flights, {"AIRLINE_NAME"}), Range(cause_cols))
        names == GroupKeys(df, "AIRLINE_NAME")
        causes == SortSet(Range(cause_cols), StrOrder(Range(cause_cols)))
        \* the melted table has every cause for every row of df
        grouped == [k \in 1..(Len(names) * Len(causes)) |->
                       LET name == names[((k - 1) \div Len(causes)) + 1]
                           cause == causes[((k - 1) % Len(causes)) + 1]
                       IN  [AIRLINE_NAME |-> name, Cause |-> cause,
                            Minutes |-> Mean(Col(RowsOf(df, "AIRLINE_NAME", name), cause))]]
    IN  Result("delay_cause_bar", None, "ok", Len(df), grouped)

on_time_vs_delayed(hour) ==
    LET df == SelectSeq(da.flights, LAMBDA r : r.CANCELLED = 0 /\ r.SCHED_HOUR = hour)
        data == ValueCounts(Col(df, "ON_TIME"))
    IN  Result("on_time_vs_delayed", hour, "ok", Len(df),
            [k \in DOMAIN data |-> [Status |-> data[k].key, Count |-> data[k].count]])

----------------------------------------------------------------------------
(* The state machine *)

NoResult == Result("none", None, "ok", 0, <<>>)
NoEvent == [input |-> "none", value |-> None, pending |-> {}, ran |-> {}]

Init ==
    /\ \E file \in FlightFiles :
        /\ ov = LoadOverview(file)
        /\ da = LoadDelay(file)
        /\ cf = LoadCancelled(file)
    /\ np_random \in 0..(RngMod - 1)
    /\ out = NoResult
    /\ firstGeo = <<>>
    /\ probe = <<>>
    /\ ui = NoEvent

\* a statement frame[column] = ... or frame.columns = ... of a callback;
\* frame is the expression that made the object the statement writes to
Store(page, callback, frame, column) ==
    [page |-> page, callback |-> callback, frame |-> frame, column |-> column]

stores ==
    { Store("ov", "airline_share", "value_counts().reset_index()", "columns"),
      Store("ov", "airline_share", "value_counts().reset_index()", "Highlight"),
      Store("ov", "route_bar", "value_counts().head(20).reset_index()", "columns"),
      Store("ov", "show_map", "airport_coords.loc[airports_used].copy()", "code"),
      Store("ov", "busiest_day", "value_counts().reindex(day_order).reset_index()", "columns"),
      Store("ov", "monthly_trend", "value_counts().reindex(month_order).reset_index()", "columns"),
      Store("ov", "origin_treemap", "value_counts().head(20).reset_index()", "columns"),
      Store("ov", "dest_treemap", "value_counts().head(20).reset_index()", "columns"),
      Store("ov", "airport_bar", "value_counts().head(10).reset_index()", "columns"),
      Store("ov", "airport_bar", "value_counts().head(10).reset_index()", "City"),
      Store("ov", "airport_bar", "value_counts().head(10).reset_index()", "Label"),
      Store("cf", "cancelled_pie", "value_counts().reset_index()", "columns"),
      Store("cf", "cancelled_pie", "value_counts().reset_index()", "Cancelled"),
      Store("cf", "cancel_day_bar", "groupby().agg().reset_index()", "rate"),
      Store("cf", "cancel_heat", "groupby().agg().reset_index()", "rate"),
      Store("cf", "cancel_reason_pie", "value_counts().reset_index()", "columns"),
      Store("cf", "cancel_reason_pie", "value_counts().reset_index()", "Reason"),
      Store("cf", "cancel_airport_bar", "value_counts().head(10).reset_index()", "columns"),
      Store("cf", "cancel_airport_bar", "value_counts().head(10).reset_index()", "City"),
      Store("cf", "cancel_map", "airport_coords.loc[airports_used].copy()", "code"),
      Store("cf", "cancel_route_bar", "value_counts().head(15).reset_index()", "columns"),
      Store("cf", "cancel_rate_bar", "groupby().agg().reset_index()", "rate"),
      Store("cf", "cancelled_tail_bar", "value_counts().head(10).reset_index()", "columns"),
      Store("da", "delay_by_distance_range", "flights[mask].copy()", "DISTANCE_BIN"),
      Store("da", "on_time_vs_delayed", "value_counts().reset_index()", "columns") }

\* a table with the columns cols assigned
Assigned(t, cols) ==
    [i \in DOMAIN t |->
        [c \in DOMAIN t[i] \cup cols |-> IF c \in cols THEN "assigned" ELSE t[i][c]]]

\* the namespace of a page after a callback has run: a store changes a
\* module-level object only when it writes to that very object
AfterStores(ns, page, callback) ==
    LET hits == {w \in stores :
                    w.page = page /\ w.callback = callback /\ w.frame \in DOMAIN ns}
    IN  IF hits = {} THEN ns
        ELSE [name \in DOMAIN ns |->
                IF \E w \in hits : w.frame = name
                THEN Assigned(ns[name], {w.column : w \in {v \in hits : v.frame = name}})
                ELSE ns[name]]

\* a callback that reads the tables and draws nothing from np.random
Returns(result) ==
    /\ out' = result
    /\ ov' = AfterStores(ov, "ov", result.cb)
    /\ cf' = AfterStores(cf, "cf", result.cb)
    /\ da' = AfterStores(da, "da", result.cb)
    /\ UNCHANGED <<np_random, firstGeo, probe, ui>>

AirlineShare == \E a \in AirlineInputs : Returns(airline_share(a))
RouteBar == \E a \in AirlineInputs : Returns(route_bar(a))
ShowMap == \E a \in AirlineInputs : Returns(show_map(a))
BusiestDay == \E a \in AirlineInputs : Returns(busiest_day(a))
MonthlyTrend == \E a \in AirlineInputs : Returns(monthly_trend(a))
OriginTreemap == \E a \in AirlineInputs : Returns(origin_treemap(a))
DestTreemap == \E a \in AirlineInputs : Returns(dest_treemap(a))
AirportBar == \E a \in AirlineInputs : Returns(airport_bar(a))

CancelledBar == Returns(cancelled_bar)
CancelledPie == Returns(cancelled_pie)
CancelDayBar == Returns(cancel_day_bar)
CancelHeat == Returns(cancel_heat)
CancelReasonPie == Returns(cancel_reason_pie)
CancelAirportBar == Returns(cancel_airport_bar)
CancelMap == Returns(cancel_map)
CancelRouteBar == Returns(cancel_route_bar)
CancelRateBar == Returns(cancel_rate_bar)
CancelledTailBar == Returns(cancelled_tail_bar)
CancelAnimatedBar == Returns(cancel_animated_bar)

UpdateBoxplot == \E h \in HourInputs : Returns(update_boxplot(h))
DelayTrendAnimation == Returns(delay_trend_animation)
DelayHeatmap == Returns(delay_heatmap)
DelayByDistanceRange == \E h \in HourInputs : Returns(delay_by_distance_range(h))
AvgDelay == Returns(avg_delay)
DelayCauseBar == Returns(delay_cause_bar)
OnTimeVsDelayed == \E h \in HourInputs : Returns(on_time_vs_delayed(h))

\* delay_violin draws its sample from the process-global generator
DelayViolin ==
    \E h \in HourInputs :
        /\ out' = delay_violin(h, np_random)
        /\ np_random' = AfterPermutation(np_random, Len(ViolinRows(h)))
        /\ da' = AfterStores(da, "da", "delay_violin")
        /\ UNCHANGED <<ov, cf, firstGeo, probe, ui>>

Next ==
    \/ AirlineShare
    \/ RouteBar
    \/ ShowMap
    \/ BusiestDay
    \/ MonthlyTrend
    \/ OriginTreemap
    \/ DestTreemap
    \/ AirportBar
    \/ CancelledBar
    \/ CancelledPie
    \/ CancelDayBar
    \/ CancelHeat
    \/ CancelReasonPie
    \/ CancelAirportBar
    \/ CancelMap
    \/ CancelRouteBar
    \/ CancelRateBar
    \/ CancelledTailBar
    \/ CancelAnimatedBar
    \/ UpdateBoxplot
    \/ DelayTrendAnimation
    \/ DelayViolin
    \/ DelayHeatmap
    \/ DelayByDistanceRange
    \/ AvgDelay
    \/ DelayCauseBar
    \/ OnTimeVsDelayed

Spec == Init /\ [][Next]_vars

----------------------------------------------------------------------------
(* The two maps and the violin, with the first map invocation remembered *)

Observed(result) ==
    /\ out' = result
    /\ firstGeo' = IF firstGeo = <<>>
                   THEN <<[result |-> result, np_random |-> np_random]>>
                   ELSE firstGeo
    /\ ov' = AfterStores(ov, "ov", result.cb)
    /\ cf' = AfterStores(cf, "cf", result.cb)
    /\ UNCHANGED <<da, np_random, probe, ui>>

ShowMapObserved == \E a \in AirlineInputs : Observed(show_map(a))
CancelMapObserved == Observed(cancel_map)

InitGeo ==
    /\ \E file \in FlightFiles \cup {f \in BigFlightFiles : Len(f) <= MAP_SAMPLE + 1} :
        /\ ov = LoadOverview(file)
        /\ da = LoadDelay(file)
        /\ cf = LoadCancelled(file)
    /\ np_random \in 0..(RngMod - 1)
    /\ out = NoResult
    /\ firstGeo = <<>>
    /\ probe = <<>>
    /\ ui = NoEvent

NextGeo ==
    \/ ShowMapObserved
    \/ CancelMapObserved
    \/ DelayViolin

SpecGeo == InitGeo /\ [][NextGeo]_vars

----------------------------------------------------------------------------
(* The import of the page modules: the files are read, then the enrichment *)
(* statements run; they are run up to MaxApply times on the same table.    *)

\* a file of one flight for every scheduled departure
HourFiles ==
    {<<[Catalogue[1] EXCEPT !.SCHEDULED_DEPARTURE = x]>> : x \in 0..MaxHHMM}

InitImport ==
    /\ \E file \in FlightFiles \cup HourFiles :
        /\ ov = ReadOverview(file)
        /\ da = ReadDelay(file)
        /\ cf = ReadCancelled(file)
    /\ np_random = 0
    /\ out = NoResult
    /\ firstGeo = <<>>
    /\ probe = [ov |-> 0, da |-> 0, cf |-> 0]
    /\ ui = NoEvent

ImportOverview ==
    /\ probe.ov < MaxApply
    /\ ov' = EnrichOverviewNs(ov)
    /\ probe' = [probe EXCEPT !.ov = @ + 1]
    /\ UNCHANGED <<da, cf, np_random, out, firstGeo, ui>>

ImportDelay ==
    /\ probe.da < MaxApply
    /\ da' = EnrichDelayNs(da)
    /\ probe' = [probe EXCEPT !.da = @ + 1]
    /\ UNCHANGED <<ov, cf, np_random, out, firstGeo, ui>>

ImportCancelled ==
    /\ probe.cf < MaxApply
    /\ cf' = EnrichCancelledNs(cf)
    /\ probe' = [probe EXCEPT !.cf = @ + 1]
    /\ UNCHANGED <<ov, da, np_random, out, firstGeo, ui>>

NextImport ==
    \/ ImportOverview
    \/ ImportDelay
    \/ ImportCancelled

SpecImport == InitImport /\ [][NextImport]_vars

----------------------------------------------------------------------------
(* The sampling and route callbacks, also over files longer than the       *)
(* sample sizes                                                            *)

InitBig ==
    /\ \E file \in FlightFiles \cup BigFlightFiles :
        /\ ov = LoadOverview(file)
        /\ da = LoadDelay(file)
        /\ cf = LoadCancelled(file)
    /\ np_random \in 0..(RngMod - 1)
    /\ out = NoResult
    /\ firstGeo = <<>>
    /\ probe = <<>>
    /\ ui = NoEvent

NextBig ==
    \/ RouteBar
    \/ ShowMap
    \/ CancelMap
    \/ CancelRouteBar
    \/ CancelRateBar
    \/ DelayViolin

SpecBig == InitBig /\ [][NextBig]_vars

----------------------------------------------------------------------------
(* The inputs of the pages: a change of the hour slider or of the airline  *)
(* selector triggers every callback registered on that input               *)

\* a @dash.callback(Output(output, 'figure'), Input(input, 'value')) registration
Registered(callback, output, input) ==
    [callback |-> callback, output |-> output, input |-> input]

callback_map ==
    { Registered("airline_share", "airline-bar", "airline-selector"),
      Registered("route_bar", "top-routes", "airline-selector"),
      Registered("show_map", "us-flight-map", "airline-selector"),
      Registered("busiest_day", "day-busy-bar", "airline-selector"),
      Registered("monthly_trend", "month-trend", "airline-selector"),
      Registered("origin_treemap", "origin-treemap", "airline-selector"),
      Registered("dest_treemap", "dest-treemap", "airline-selector"),
      Registered("airport_bar", "busiest-airports", "airline-selector"),
      Registered("update_boxplot", "delay-boxplot", "hour-slider"),
      Registered("delay_trend_animation", "delay-line", "hour-slider"),
      Registered("delay_violin", "violin-plot", "hour-slider"),
      Registered("delay_heatmap", "delay-heatmap", "hour-slider"),
      Registered("delay_by_distance_range", "distance-delay-bar", "hour-slider"),
      Registered("avg_delay", "avg-delay-bar", "hour-slider"),
      Registered("delay_cause_bar", "delay-cause-bar", "hour-slider"),
      Registered("on_time_vs_delayed", "ontime-pie", "hour-slider") }

\* the callbacks that have the changed input as their Input
Triggered(input) == {r \in callback_map : r.input = input}

\* the registered function called with the new value of its input
Call(callback, value, s) ==
    CASE callback = "airline_share" -> airline_share(value)
      [] callback = "route_bar" -> route_bar(value)
      [] callback = "show_map" -> show_map(value)
      [] callback = "busiest_day" -> busiest_day(value)
      [] callback = "monthly_trend" -> monthly_trend(value)
      [] callback = "origin_treemap" -> origin_treemap(value)
      [] callback = "dest_treemap" -> dest_treemap(value)
      [] callback = "airport_bar" -> airport_bar(value)
      [] callback = "update_boxplot" -> update_boxplot(value)
      [] callback = "delay_trend_animation" -> delay_trend_animation
      [] callback = "delay_violin" -> delay_violin(value, s)
      [] callback = "delay_heatmap" -> delay_heatmap
      [] callback = "delay_by_distance_range" -> delay_by_distance_range(value)
      [] callback = "avg_delay" -> avg_delay
      [] callback = "delay_cause_bar" -> delay_cause_bar
      [] callback = "on_time_vs_delayed" -> on_time_vs_delayed(value)

\* the user moves the hour slider (once the previous change is served)
HourSlider ==
    /\ ui.pending = {}
    /\ \E h \in HourInputs :
        ui' = [input |-> "hour-slider", value |-> h,
               pending |-> Triggered("hour-slider"), ran |-> {}]
    /\ UNCHANGED <<ov, da, cf, np_random, out, firstGeo, probe>>

\* the user picks or clears an airline in the dropdown
AirlineSelector ==
    /\ ui.pending = {}
    /\ \E a \in AirlineInputs :
        ui' = [input |-> "airline-selector", value |-> a,
               pending |-> Triggered("airline-selector"), ran |-> {}]
    /\ UNCHANGED <<ov, da, cf, np_random, out, firstGeo, probe>>

\* one of the triggered callbacks runs and its figure goes to its Output
Dispatch ==
    \E r \in ui.pending :
        /\ out' = Call(r.callback, ui.value, np_random)
        /\ np_random' = IF r.callback = "delay_violin"
                        THEN AfterPermutation(np_random, Len(ViolinRows(ui.value)))
                        ELSE np_random
        /\ ui' = [ui EXCEPT !.pending = @ \ {r}, !.ran = @ \cup {r}]
        /\ ov' = AfterStores(ov, "ov", r.callback)
        /\ da' = AfterStores(da, "da", r.callback)
        /\ UNCHANGED <<cf, firstGeo, probe>>

InitEvents ==
    /\ \E file \in {f \in FlightFiles : Len(f) <= MaxEventRows} :
        /\ ov = LoadOverview(file)
        /\ da = LoadDelay(file)
        /\ cf = LoadCancelled(file)
    /\ np_random \in 0..(RngMod - 1)
    /\ out = NoResult
    /\ firstGeo = <<>>
    /\ probe = <<>>
    /\ ui = NoEvent

NextEvents ==
    \/ HourSlider
    \/ AirlineSelector
    \/ Dispatch

SpecEvents == InitEvents /\ [][NextEvents]_vars

----------------------------------------------------------------------------
(* The Top-N callbacks over files with more routes, cities, airports and   *)
(* tail numbers than the charts show                                       *)

TopCode(i) == "P" \o ToString(i)

\* an airports.csv of TopCodes airports, each in a city of its own
top_airports_csv ==
    [i \in 1..TopCodes |->
        [IATA_CODE |-> TopCode(i), CITY |-> "City" \o ToString(i),
         LATITUDE |-> Val(i), LONGITUDE |-> Val(-i)]]

\* a cancelled flight from airport i to the next airport, with its own tail
TopFlight(i) ==
    Flight(IF i % 2 = 1 THEN "AA" ELSE "BB", "T" \o ToString(i), TopCode(i),
           TopCode((i % TopCodes) + 1), 1230, NaNf, 500, 1, 1, 1, "A", NoCauses)

\* a cancelled flight without tail number between airports that are not listed
Unlisted == Flight("AA", NaN, "10397", "10397", 1230, NaNf, 500, 1, 1, 1, "A", NoCauses)

\* the flights 1..n, for no flight and for every n from below the smallest
\* N on, led by no or one unlisted flight and followed by up to two more
\* flights of the first or the last route
TopFiles ==
    UNION {
        {lead \o [i \in 1..n |-> TopFlight(i)] \o [k \in DOMAIN dup |-> TopFlight(dup[k])] :
            lead \in {<<>>, <<Unlisted>>},
            dup \in IF n = 0 THEN {<<>>}
                    ELSE {<<>>} \cup {<<a>> : a \in {1, n}}
                              \cup {<<a, b>> : a \in {1, n}, b \in {1, n}}} :
        n \in {0} \cup (TOP_AIRPORTS - 1)..TopCodes}

InitTop ==
    /\ \E file \in TopFiles :
        /\ ov = EnrichOverviewNs(
                    [ReadOverview(file) EXCEPT
                        !.airport_coords = airport_coords_of(read_csv(top_airports_csv)),
                        !.city_map = city_map_of(read_csv(top_airports_csv))])
        /\ cf = EnrichCancelledNs(
                    [ReadCancelled(file) EXCEPT
                        !.airport_coords = airport_coords_of(read_csv(top_airports_csv)),
                        !.city_map = city_map_of(read_csv(top_airports_csv))])
        /\ da = LoadDelay(file)
    /\ np_random = 0
    /\ out = NoResult
    /\ firstGeo = <<>>
    /\ probe = <<>>
    /\ ui = NoEvent

NextTop ==
    \/ RouteBar
    \/ OriginTreemap
    \/ DestTreemap
    \/ AirportBar
    \/ CancelAirportBar
    \/ CancelRouteBar
    \/ CancelledTailBar

SpecTop == InitTop /\ [][NextTop]_vars

----------------------------------------------------------------------------
(* Properties *)

KnownCoords(page, code) ==
    \E i \in DOMAIN page.airport_coords :
        /\ page.airport_coords[i].IATA_CODE = code
        /\ page.airport_coords[i].LATITUDE # NaNf
        /\ page.airport_coords[i].LONGITUDE # NaNf

\* the rows a map may sample: they pass the airline / cancelled filter and
\* both their endpoints are in the coordinate lookup
AvailableRows(cb, arg) ==
    IF cb = "show_map"
    THEN {i \in DOMAIN ov.flights :
            /\ arg = None \/ ov.flights[i].AIRLINE = arg
            /\ KnownCoords(ov, ov.flights[i].ORIGIN_AIRPORT)
            /\ KnownCoords(ov, ov.flights[i].DESTINATION_AIRPORT)}
    ELSE {i \in DOMAIN cf.flights :
            /\ cf.flights[i].CANCELLED = 1
            /\ KnownCoords(cf, cf.flights[i].ORIGIN_AIRPORT)
            /\ KnownCoords(cf, cf.flights[i].DESTINATION_AIRPORT)}

IsGeo(result) == result.cb \in {"show_map", "cancel_map"}

\* C1: the geo-sample of show_map and of cancel_map has exactly
\* min(300, available_rows) rows, for every dataset and every selected
\* airline, also when some rows have an endpoint outside the coordinate lookup.
C1_GeoSampleSize ==
    IsGeo(out) =>
        /\ out.status = "ok"
        /\ Len(out.data.sample) = Min(MAP_SAMPLE, Cardinality(AvailableRows(out.cb, out.arg)))

\* the label whose range covers distance d, 0 <= d < 3000
CoveringLabel(d) ==
    IF d < 500 THEN "<500"
    ELSE IF d < 1000 THEN "500-999"
    ELSE IF d < 1500 THEN "1000-1499"
    ELSE IF d < 2000 THEN "1500-1999"
    ELSE IF d < 2500 THEN "2000-2499"
    ELSE "2500+"

\* C2: delay_by_distance_range puts every distance 0 <= d < 3000 into the
\* bucket whose label covers d (499 -> <500, 500 -> 500-999, 2999 -> 2500+),
\* and a distance d >= 3000 or d < 0 into no bucket.
C2_DistanceBuckets ==
    out.cb = "delay_by_distance_range" =>
        /\ \A k \in DOMAIN out.data.binned :
            LET d == out.data.binned[k].DISTANCE
            IN  out.data.binned[k].DISTANCE_BIN =
                    IF 0 <= d /\ d < 3000 THEN CoveringLabel(d) ELSE NaN
        /\ \A i \in DOMAIN da.flights :
            (/\ da.flights[i].CANCELLED = 0
             /\ da.flights[i].SCHED_HOUR = out.arg
             /\ 0 <= da.flights[i].DISTANCE
             /\ da.flights[i].DISTANCE < 3000) =>
                \E k \in DOMAIN out.data.avg :
                    out.data.avg[k].DISTANCE_BIN = CoveringLabel(da.flights[i].DISTANCE)

\* a flight record with a code that is absent from the airline table, from
\* the airport table or from the coordinate lookup
UnknownCode(page, r) ==
    \/ r.AIRLINE \notin DOMAIN page.airline_map
    \/ r.ORIGIN_AIRPORT \notin DOMAIN page.city_map
    \/ r.DESTINATION_AIRPORT \notin DOMAIN page.city_map
    \/ ~KnownCoords(page, r.ORIGIN_AIRPORT)
    \/ ~KnownCoords(page, r.DESTINATION_AIRPORT)

\* C4: with unknown airline or airport codes in the flight records, every
\* callback of the three pages still returns a chart.
C4_UnknownCodesNeverRaise ==
    (\E i \in DOMAIN ov.flights : UnknownCode(ov, ov.flights[i])) => out.status = "ok"

\* C3: for every flight the derived scheduled hour (SCHED_HOUR on the delay
\* page, HOUR on the cancelled page) is floor(SCHEDULED_DEPARTURE / 100) for
\* every SCHEDULED_DEPARTURE in 0..2359, and the two pages derive the same hour.
C3_ScheduledHour ==
    /\ \A i \in DOMAIN da.flights :
        "SCHED_HOUR" \in DOMAIN da.flights[i] =>
            da.flights[i].SCHED_HOUR = da.flights[i].SCHEDULED_DEPARTURE \div 100
    /\ \A i \in DOMAIN cf.flights :
        "HOUR" \in DOMAIN cf.flights[i] =>
            cf.flights[i].HOUR = cf.flights[i].SCHEDULED_DEPARTURE \div 100
    /\ \A i \in DOMAIN da.flights :
        ("SCHED_HOUR" \in DOMAIN da.flights[i] /\ "HOUR" \in DOMAIN cf.flights[i]) =>
            da.flights[i].SCHED_HOUR = cf.flights[i].HOUR

\* both pages have derived hour 5 from the departure 555
C3_Witness ==
    /\ Len(da.flights) = 1
    /\ da.flights[1].SCHEDULED_DEPARTURE = 555
    /\ "SCHED_HOUR" \in DOMAIN da.flights[1]
    /\ "HOUR" \in DOMAIN cf.flights[1]
    /\ da.flights[1].SCHED_HOUR = 5
    /\ cf.flights[1].HOUR = 5

\* the rows of the cancelled page's table that belong to the group of key
GroupMembers(cb, key) ==
    {i \in DOMAIN cf.flights :
        IF cb = "cancel_day_bar" THEN cf.flights[i].DAY_NAME = key
        ELSE IF cb = "cancel_rate_bar" THEN cf.flights[i].ROUTE = key
        ELSE cf.flights[i].AIRLINE_NAME = key[1] /\ cf.flights[i].DAY_NAME = key[2]}

\* C5: every rate of cancel_day_bar, cancel_heat and cancel_rate_bar is
\* 100 * (cancelled rows of the group) / (rows of the group), lies in
\* [0, 100], and no output row belongs to a group without rows.
C5_CancellationRates ==
    out.cb \in {"cancel_day_bar", "cancel_heat", "cancel_rate_bar"} =>
        \A k \in DOMAIN out.data :
            LET members == GroupMembers(out.cb, out.data[k].key)
                hit == {i \in members : cf.flights[i].CANCELLED = 1}
            IN  /\ members # {}
                /\ out.data[k].rate = Quot(100 * Cardinality(hit), Cardinality(members))
                /\ out.data[k].rate.den > 0
                /\ 0 <= out.data[k].rate.num
                /\ out.data[k].rate.num <= 100 * out.data[k].rate.den

\* a route with one of two flights cancelled has the rate 100 / 2
C5_Witness ==
    /\ out.cb = "cancel_rate_bar"
    /\ \E k \in DOMAIN out.data : out.data[k].rate = Quot(100, 2)

\* C6: on a fixed dataset and a fixed selected airline every invocation of
\* show_map (and of cancel_map) returns the same sampled rows in the same
\* order, whatever ran before it, delay_violin included.
C6_GeoSampleReproducible ==
    (/\ firstGeo # <<>>
     /\ IsGeo(out)
     /\ out.cb = firstGeo[1].result.cb
     /\ out.arg = firstGeo[1].result.arg) =>
        /\ out.status = firstGeo[1].result.status
        /\ out.data.sample = firstGeo[1].result.data.sample

\* a later show_map, after delay_violin has moved the global generator,
\* that samples 300 of more than 300 rows
C6_Witness ==
    /\ firstGeo # <<>>
    /\ out.cb = "show_map"
    /\ firstGeo[1].result.cb = "show_map"
    /\ out.arg = firstGeo[1].result.arg
    /\ np_random # firstGeo[1].np_random
    /\ out.status = "ok"
    /\ Len(out.data.sample) = MAP_SAMPLE
    /\ Cardinality(AvailableRows(out.cb, out.arg)) > MAP_SAMPLE

AirportRef == Range(Col(airports_csv, "IATA_CODE"))

AbsentCodesHaveNoRoute(t) ==
    \A i \in DOMAIN t :
        /\ t[i].ORIGIN_AIRPORT \notin AirportRef =>
                t[i].ORIGIN_CITY = NaN /\ t[i].ROUTE = NaN
        /\ t[i].DESTINATION_AIRPORT \notin AirportRef =>
                t[i].DEST_CITY = NaN /\ t[i].ROUTE = NaN

\* the selected rows of t with both codes in the airport reference and the route label
RouteRows(t, selected, label) ==
    {i \in DOMAIN t :
        /\ i \in selected
        /\ t[i].ORIGIN_AIRPORT \in AirportRef
        /\ t[i].DESTINATION_AIRPORT \in AirportRef
        /\ t[i].ROUTE = label}

\* C7: a flight with an origin or destination code absent from the airport
\* reference has an absent city and an absent ROUTE, is counted in no route
\* aggregate and is drawn as no arc; every arc and every marker of the two
\* maps uses only codes with a latitude and a longitude in the lookup.
C7_AbsentCodesExcluded ==
    /\ AbsentCodesHaveNoRoute(ov.flights)
    /\ AbsentCodesHaveNoRoute(cf.flights)
    /\ out.cb = "route_bar" =>
        \A k \in DOMAIN out.data :
            out.data[k].count =
                Cardinality(RouteRows(ov.flights,
                    {i \in DOMAIN ov.flights :
                        out.arg = None \/ ov.flights[i].AIRLINE = out.arg},
                    out.data[k].key))
    /\ out.cb = "cancel_route_bar" =>
        \A k \in DOMAIN out.data :
            out.data[k].count =
                Cardinality(RouteRows(cf.flights,
                    {i \in DOMAIN cf.flights : cf.flights[i].CANCELLED = 1},
                    out.data[k].key))
    /\ out.cb = "cancel_rate_bar" =>
        \A k \in DOMAIN out.data :
            out.data[k].total =
                Cardinality(RouteRows(cf.flights, DOMAIN cf.flights, out.data[k].key))
    /\ IsGeo(out) =>
        LET page == IF out.cb = "show_map" THEN ov ELSE cf
        IN  /\ \A k \in DOMAIN out.data.arcs :
                LET arc == out.data.arcs[k]
                IN  /\ arc.origin \in AirportRef /\ arc.dest \in AirportRef
                    /\ KnownCoords(page, arc.origin) /\ KnownCoords(page, arc.dest)
                    /\ \A e \in 1..2 : arc.lon[e] # NaNf /\ arc.lat[e] # NaNf
            /\ \A k \in DOMAIN out.data.markers :
                LET m == out.data.markers[k]
                IN  /\ m.code \in AirportRef
                    /\ KnownCoords(page, m.code)
                    /\ m.lon # NaNf /\ m.lat # NaNf

\* show_map has drawn 300 arcs from a selection that holds a flight whose
\* destination is not in the airport reference
C7_Witness ==
    /\ out.cb = "show_map"
    /\ out.status = "ok"
    /\ Len(out.data.arcs) = MAP_SAMPLE
    /\ \E i \in DOMAIN ov.flights :
        /\ out.arg = None \/ ov.flights[i].AIRLINE = out.arg
        /\ ov.flights[i].DESTINATION_AIRPORT \notin AirportRef

\* the aggregate of a callback over no rows
EmptyAggregate(result) ==
    IF IsGeo(result) THEN result.data = NoGeoData
    ELSE IF result.cb \in {"busiest_day", "monthly_trend"}
    THEN \A k \in DOMAIN result.data : result.data[k].count = NaNf
    ELSE IF result.cb = "cancel_animated_bar"
    THEN result.data.grouped = <<>> /\ result.data.range_y = <<Val(0), NaNf>>
    ELSE IF result.cb = "delay_by_distance_range"
    THEN result.data.binned = <<>> /\ result.data.avg = <<>>
    ELSE result.data = <<>>

\* C8: a callback whose filter selects no rows (an hour or an airline
\* without flights, a dataset without cancelled flights) returns an empty
\* aggregate instead of raising.
C8_EmptySelectionNeverRaises ==
    (out.cb # "none" /\ out.selected = 0) =>
        out.status = "ok" /\ EmptyAggregate(out)

\* delay_violin has run for an hour without a flight of a dataset that has flights
C8_Witness ==
    /\ out.cb = "delay_violin"
    /\ out.selected = 0
    /\ Len(da.flights) > 0
    /\ out.status = "ok"

SourceColumns == DOMAIN Catalogue[1] \cup {"index"}

SourceUnchanged(t, u) ==
    /\ Len(u) = Len(t)
    /\ \A i \in DOMAIN t : \A f \in SourceColumns : u[i][f] = t[i][f]

\* C9: running the enrichment of a page a second time on the enriched table
\* leaves every derived column as it was after the first run, and no run
\* changes a source column.
C9_EnrichmentIdempotent ==
    [][/\ probe.ov >= 1 => ov'.flights = ov.flights
       /\ probe.da >= 1 => da'.flights = da.flights
       /\ probe.cf >= 1 => cf'.flights = cf.flights
       /\ SourceUnchanged(ov.flights, ov'.flights)
       /\ SourceUnchanged(da.flights, da'.flights)
       /\ SourceUnchanged(cf.flights, cf'.flights)]_vars

\* every page has run its enrichment twice on a table with a flight whose
\* route is absent and a flight whose route is present
C9_Witness ==
    /\ probe = [ov |-> MaxApply, da |-> MaxApply, cf |-> MaxApply]
    /\ \E i \in DOMAIN ov.flights : ov.flights[i].ROUTE = NaN
    /\ \E i \in DOMAIN cf.flights : cf.flights[i].ROUTE # NaN
    /\ \E i \in DOMAIN da.flights : da.flights[i].AIRLINE_NAME = NaN

\* the rows that feed the chart of a result
RowsFed(result) ==
    IF result.cb = "delay_violin" THEN Range(result.data) ELSE result.data

\* C10: two invocations of the same callback with the same dataset and the
\* same input produce the same aggregate (the same rows feed the chart),
\* delay_violin included.
C10_CallbacksDeterministic ==
    [][(out'.cb = out.cb /\ out'.arg = out.arg) =>
            /\ out'.status = out.status
            /\ RowsFed(out') = RowsFed(out)]_vars

\* C11: a change of the hour slider, and a change of the airline selector,
\* makes exactly one callback run, and its output goes to one chart widget.
C11_OneCallbackPerEvent ==
    /\ Cardinality(ui.ran) <= 1
    /\ Cardinality({r.output : r \in ui.ran}) <= 1
    /\ (ui.input # "none" /\ ui.pending = {}) => Cardinality(ui.ran) = 1

\* C12: no callback invocation changes a column of a page's flights table
\* or one of its lookups, and none changes what a callback returns: the
\* result of a callback invoked after the step is the result it would have
\* given before it.  (The tables and the input fix the result of every
\* callback but delay_violin, whose sample also comes from np.random.)
C12_NoSharedState ==
    [][/\ ov' = ov
       /\ da' = da
       /\ cf' = cf
       /\ \A h \in HourInputs :
            RowsFed(delay_violin(h, np_random')) = RowsFed(delay_violin(h, np_random))]_vars

\* the rows of the delay page's table of one airline name that pass Keep
\* and hold a value in column col, and the mean of that column over them
RowsWithValue(name, col, kept) ==
    SelectSeq(da.flights, LAMBDA r :
        r.AIRLINE_NAME = name /\ r.index \in kept /\ r[col] # NaNf)

MeanOfRows(rows, col) ==
    Quot(SumSeq([k \in DOMAIN rows |-> rows[k][col][1]]), Len(rows))

AllRows == {da.flights[i].index : i \in DOMAIN da.flights}
Flown == {da.flights[i].index : i \in {j \in DOMAIN da.flights : da.flights[j].CANCELLED = 0}}
FlownAt(hour) ==
    {da.flights[i].index :
        i \in {j \in DOMAIN da.flights :
                da.flights[j].CANCELLED = 0 /\ da.flights[j].SCHED_HOUR = hour}}

\* C13: every mean is the arithmetic mean of its column over exactly the
\* rows of the group that hold a value in that column: in delay_cause_bar
\* over the rows of the airline with that cause present (whatever the other
\* causes are), in avg_delay, delay_trend_animation and delay_heatmap over
\* the non-cancelled rows of the group with a DEPARTURE_DELAY.
C13_MeansOverPresentRows ==
    /\ out.cb = "delay_cause_bar" =>
        /\ \A k \in DOMAIN out.data :
            out.data[k].Minutes =
                MeanOfRows(RowsWithValue(out.data[k].AIRLINE_NAME, out.data[k].Cause,
                                         AllRows), out.data[k].Cause)
        /\ \A i \in DOMAIN da.flights : \A c \in Range(cause_cols) :
            (da.flights[i].AIRLINE_NAME # NaN /\ da.flights[i][c] # NaNf) =>
                \E k \in DOMAIN out.data :
                    /\ out.data[k].AIRLINE_NAME = da.flights[i].AIRLINE_NAME
                    /\ out.data[k].Cause = c
    /\ out.cb = "avg_delay" =>
        \A k \in DOMAIN out.data :
            LET rows == RowsWithValue(out.data[k].AIRLINE_NAME, "DEPARTURE_DELAY", Flown)
            IN  /\ rows # <<>>
                /\ out.data[k].DEPARTURE_DELAY = MeanOfRows(rows, "DEPARTURE_DELAY")
    /\ out.cb \in {"delay_trend_animation", "delay_heatmap"} =>
        \A k \in DOMAIN out.data :
            LET rows == RowsWithValue(out.data[k].AIRLINE_NAME, "DEPARTURE_DELAY",
                                      FlownAt(out.data[k].SCHED_HOUR))
            IN  /\ rows # <<>>
                /\ out.data[k].DEPARTURE_DELAY = MeanOfRows(rows, "DEPARTURE_DELAY")

TopNCallbacks ==
    {"route_bar", "origin_treemap", "dest_treemap", "cancel_route_bar",
     "airport_bar", "cancel_airport_bar", "cancelled_tail_bar"}

\* the N of a Top-N chart
TopLimit(cb) ==
    IF cb \in {"route_bar", "origin_treemap", "dest_treemap"} THEN 20
    ELSE IF cb = "cancel_route_bar" THEN 15
    ELSE 10

\* the category values that a Top-N callback counts: one record per value
\* occurrence in the filtered table (airport_bar counts both endpoints)
Occurrences(cb, arg) ==
    LET t == IF cb \in {"route_bar", "origin_treemap", "dest_treemap", "airport_bar"}
             THEN ov.flights ELSE cf.flights
        rows == IF cb \in {"route_bar", "origin_treemap", "dest_treemap", "airport_bar"}
                THEN {i \in DOMAIN t : arg = None \/ t[i].AIRLINE = arg}
                ELSE {i \in DOMAIN t : t[i].CANCELLED = 1}
        cols == CASE cb \in {"route_bar", "cancel_route_bar"} -> {"ROUTE"}
                  [] cb = "origin_treemap" -> {"ORIGIN_CITY"}
                  [] cb = "dest_treemap" -> {"DEST_CITY"}
                  [] cb = "airport_bar" -> {"ORIGIN_AIRPORT", "DESTINATION_AIRPORT"}
                  [] cb = "cancel_airport_bar" -> {"ORIGIN_AIRPORT"}
                  [] cb = "cancelled_tail_bar" -> {"TAIL_NUMBER"}
    IN  {[row |-> i, col |-> c, value |-> t[i][c]] : i \in rows, c \in cols}

\* the category and the count of an output row
TopKey(cb, row) ==
    IF cb = "airport_bar" THEN row.code
    ELSE IF cb = "cancel_airport_bar" THEN row.Airport
    ELSE row.key

TopCount(cb, row) ==
    IF cb = "airport_bar" THEN row.Flights
    ELSE IF cb = "cancel_airport_bar" THEN row.Cancelled
    ELSE row.count

TopNRight(result) ==
    result.cb \in TopNCallbacks =>
        LET occ == Occurrences(result.cb, result.arg)
            cats == {o.value : o \in occ} \ {NaN}
            CountOf(v) == Cardinality({o \in occ : o.value = v})
            rows == result.data
            shown == {TopKey(result.cb, rows[k]) : k \in DOMAIN rows}
        IN  /\ Len(rows) = Min(TopLimit(result.cb), Cardinality(cats))
            /\ Cardinality(shown) = Len(rows)
            /\ shown \subseteq cats
            /\ \A k \in DOMAIN rows :
                TopCount(result.cb, rows[k]) = CountOf(TopKey(result.cb, rows[k]))
            /\ \A k \in 1..(Len(rows) - 1) :
                TopCount(result.cb, rows[k]) >= TopCount(result.cb, rows[k + 1])
            /\ \A v \in cats \ shown : \A k \in DOMAIN rows :
                CountOf(v) <= TopCount(result.cb, rows[k])

\* C14: every Top-N callback returns min(N, distinct present categories)
\* rows, each with the exact count of its category in the filtered table,
\* in non-increasing count order, no omitted category counting more than an
\* included one; a repeated invocation returns the same rows, ties included.
C14_TopN ==
    [][/\ TopNRight(out')
       /\ (out'.cb = out.cb /\ out'.arg = out.arg) => out' = out]_vars

\* route_bar shows 20 of more than 20 routes; the route counted most came
\* last in the file, and the last routes shown tie with omitted ones
C14_Witness ==
    /\ out.cb = "route_bar"
    /\ Len(out.data) = 20
    /\ Cardinality({o.value : o \in Occurrences(out.cb, out.arg)} \ {NaN}) > 20
    /\ out.data[1].count > out.data[20].count
    /\ out.data[1].key = ov.flights[Len(ov.flights)].ROUTE
    /\ \E i \in DOMAIN ov.flights : ov.flights[i].ROUTE = NaN

====
